---- MODULE Spec2Model ----
(***************************************************************************)
(* Beer Pong scorekeeping backend (src/main.py, src/schemas.py).           *)
(*                                                                         *)
(* The state is the "match" collection of the document store plus the bag  *)
(* of requests in flight, each with the local variables of its handler.    *)
(* record_hit and reset_match each read the document (find_one) and write  *)
(* it back (update_one) in two separate store calls, so each is modelled   *)
(* by a read step and a write step that other requests may interleave      *)
(* with.  create_match, get_match and list_matches make one store call.    *)
(*                                                                         *)
(* Identifier strings are modelled by integers: n >= 1 is the 24-hex       *)
(* rendering of the n-th ObjectId, anything below 1 is a string that       *)
(* ObjectId() rejects.  None is the string "None".  Event timestamps are   *)
(* left out of the stored event; created_at is a logical clock.            *)
(*                                                                         *)
(* resp holds the response of the step just taken until Return sends it,   *)
(* so every response is visible in one state and in one step.              *)
(***************************************************************************)
EXTENDS Integers, Sequences, FiniteSets, Bags, TLC

\* ---------------------------------------------------------------- bounds
MaxMatches == 2
MaxEvents == 2
MaxInFlight == 2

\* ------------------------------------------------------ program constants
DefaultCupsPerSide == 10
MaxCupsPerSide == 20
DefaultHitCups == 1
MaxHitCups == 10
DefaultLimit == 20

\* (team, shooter) of the hit payloads tried: a named shooter and an omitted one
Shots == {<<"A", "sam">>, <<"B", "None">>}
TeamNames == {<<"red", "blue">>}

\* The values tried for a request's fields; {} is an omitted field
IdStrings == 0..MaxMatches
ExplicitCupsPerSide == {{0}, {2}, {MaxCupsPerSide + 1}}
CupsPerSideInputs == {{}, {1}} \cup ExplicitCupsPerSide
HitCupsInputs == {{}, {0 - 1}, {0}, {2}, {MaxHitCups + 1}}
LimitInputs == {{}, {1}, {2}}

VARIABLES store, inflight, resp

vars == <<store, inflight, resp>>

Max(a, b) == IF a >= b THEN a ELSE b

TheOne(S) == CHOOSE x \in S : TRUE

\* ------------------------------------------------------------- schemas.py
\* Variant: only the upper limit of the cups is checked
HitEventValidNoFloor(cups) == cups <= MaxHitCups

\* Field(..., ge=1, le=10) of HitEvent.cups
HitEventValid(cups) == cups >= 1 /\ cups <= MaxHitCups

\* Variant: the event is built without the payload's cups
HitEventDefaultCups(team, shooter, cups) ==
    [team |-> team, shooter |-> shooter, cups |-> DefaultHitCups]

\* Variant: the shooter is not passed on to the event
HitEventNoShooter(team, shooter, cups) == [team |-> team, shooter |-> "None", cups |-> cups]

HitEvent(team, shooter, cups) == [team |-> team, shooter |-> shooter, cups |-> cups]

\* Field constraints of Match
MatchValid(cups_per_side, cups_remaining_a, cups_remaining_b) ==
    /\ cups_per_side >= 1 /\ cups_per_side <= MaxCupsPerSide
    /\ cups_remaining_a >= 0
    /\ cups_remaining_b >= 0

\* Variant: cups_remaining_b left at the field default
MatchDefaultCups(team_a, team_b, cups_per_side, cups_remaining_a, cups_remaining_b) ==
    [team_a |-> team_a, team_b |-> team_b, cups_per_side |-> cups_per_side,
     cups_remaining_a |-> cups_remaining_a, cups_remaining_b |-> DefaultCupsPerSide,
     status |-> "ongoing", winner |-> "None", events |-> << >>]

Match(team_a, team_b, cups_per_side, cups_remaining_a, cups_remaining_b) ==
    [team_a |-> team_a, team_b |-> team_b, cups_per_side |-> cups_per_side,
     cups_remaining_a |-> cups_remaining_a, cups_remaining_b |-> cups_remaining_b,
     status |-> "ongoing", winner |-> "None", events |-> << >>]

\* ---------------------------------------------------------------- main.py
CreateMatchRequest(names, given) ==
    [team_a |-> names[1], team_b |-> names[2],
     cups_per_side |-> IF given = {} THEN DefaultCupsPerSide ELSE TheOne(given)]

HitPayload(team, shooter, given) ==
    [team |-> team, shooter |-> shooter,
     cups |-> IF given = {} THEN DefaultHitCups ELSE TheOne(given)]

\* Variant: every string is taken for an ObjectId
ValidObjectIdAny(id_str) == TRUE

\* ObjectId(id_str) succeeds
ValidObjectId(id_str) == id_str >= 1

_to_obj_id(id_str) == id_str

\* str(ObjectId)
StrOfId(oid) == oid

\* db["match"].find_one({"_id": oid}): the set of (at most one) positions
FindOne(oid) == {i \in DOMAIN store : store[i]._id = oid}

\* resp is the response the latest step sent, with the request's identifier or
\* given value beside it; a step that sends none leaves NoResponse
NoResponse == [op |-> "none", code |-> 0]

\* The stored document of a new match: the model's fields plus the store's
\* identifier and creation timestamp.
create_document(match) ==
    [_id |-> Len(store) + 1, created_at |-> Len(store) + 1,
     team_a |-> match.team_a, team_b |-> match.team_b,
     cups_per_side |-> match.cups_per_side,
     cups_remaining_a |-> match.cups_remaining_a,
     cups_remaining_b |-> match.cups_remaining_b,
     status |-> match.status, winner |-> match.winner, events |-> match.events]

create_match(names, given) ==
    LET payload == CreateMatchRequest(names, given)
        n == payload.cups_per_side
    IN  /\ UNCHANGED inflight
        /\ IF MatchValid(n, n, n)
           THEN /\ Len(store) < MaxMatches
                /\ store' = Append(store,
                       create_document(Match(payload.team_a, payload.team_b, n, n, n)))
                /\ resp' = [op |-> "create_match", code |-> 200, given |-> given,
                            id |-> StrOfId(Len(store) + 1)]
           ELSE /\ store' = store
                /\ resp' = [op |-> "create_match", code |-> 500, given |-> given,
                            detail |-> "ValidationError"]

\* GET /api/matches: find({}).sort("created_at", -1).limit(limit)
RECURSIVE SortDesc(_)
SortDesc(docs) ==
    IF docs = {} THEN << >>
    ELSE LET newest == CHOOSE d \in docs : \A e \in docs : e.created_at <= d.created_at
         IN  <<newest>> \o SortDesc(docs \ {newest})

Abs(n) == IF n < 0 THEN -n ELSE n

\* Variant: the limit is not applied to the cursor
LimitIgnored(docs, n) == docs

\* cursor.limit(n): 0 is "no limit", a negative n returns |n| documents
Limit(docs, n) ==
    IF n = 0 \/ Abs(n) >= Len(docs) THEN docs ELSE SubSeq(docs, 1, Abs(n))

\* d["id"] = str(d.pop("_id"))
Render(d) ==
    [id |-> StrOfId(d._id), created_at |-> d.created_at,
     team_a |-> d.team_a, team_b |-> d.team_b, cups_per_side |-> d.cups_per_side,
     cups_remaining_a |-> d.cups_remaining_a, cups_remaining_b |-> d.cups_remaining_b,
     status |-> d.status, winner |-> d.winner, events |-> d.events]

list_matches(given) ==
    LET limit == IF given = {} THEN DefaultLimit ELSE TheOne(given)
        docs == Limit(SortDesc({store[i] : i \in DOMAIN store}), limit)
    IN  /\ resp' = [op |-> "list_matches", code |-> 200, limit |-> limit,
                    results |-> [k \in DOMAIN docs |-> Render(docs[k])]]
        /\ UNCHANGED <<store, inflight>>

get_match(match_id) ==
    /\ UNCHANGED <<store, inflight>>
    /\ IF ~ValidObjectId(match_id)
       THEN resp' = [op |-> "get_match", code |-> 400, match_id |-> match_id,
                     detail |-> "Invalid ID format"]
       ELSE LET found == FindOne(_to_obj_id(match_id))
            IN  IF found = {}
                THEN resp' = [op |-> "get_match", code |-> 404, match_id |-> match_id,
                              detail |-> "Match not found"]
                ELSE resp' = [op |-> "get_match", code |-> 200, match_id |-> match_id,
                              doc |-> Render(store[TheOne(found)])]

\* Variant: the hitting team's own side is decremented
CupsFieldOwn(team) == IF team = "A" THEN "cups_remaining_a" ELSE "cups_remaining_b"

\* main.py line 85
CupsField(team) == IF team = "A" THEN "cups_remaining_b" ELSE "cups_remaining_a"

\* Variant: no clamp at zero
NewValueNoClamp(current, cups) == current - cups

\* Variant: the cups are added instead of taken away
NewValuePlus(current, cups) == Max(0, current + cups)

\* main.py line 86
NewValue(current, cups) == Max(0, current - cups)

\* Variant: the match finishes one cup early
HitStatusOffByOne(doc, team, new_value) == IF new_value <= 1 THEN "finished" ELSE doc.status

\* Variant: the status is never set to finished
HitStatusKeep(doc, team, new_value) == doc.status

\* Variant: the winner is never set
HitWinnerKeep(doc, team, new_value) == doc.winner

\* Variant: the team that was hit is named the winner
HitWinnerOther(doc, team, new_value) ==
    IF new_value = 0 THEN (IF team = "A" THEN "B" ELSE "A") ELSE doc.winner

\* main.py lines 89-93: the status and winner the hit writes and returns
HitStatus(doc, team, new_value) == IF new_value = 0 THEN "finished" ELSE doc.status

HitWinner(doc, team, new_value) == IF new_value = 0 THEN team ELSE doc.winner

\* Variant: the count is decremented in the store ($inc) instead of being set
HitUpdateAtomic(cups_field, new_value, status, winner, event) ==
    [set |-> [status |-> status, winner |-> winner],
     inc |-> (cups_field :> (0 - event.cups)),
     push |-> [events |-> event]]

\* Variant: the event is not pushed with the $set
HitUpdateNoPush(cups_field, new_value, status, winner, event) ==
    [set |-> (cups_field :> new_value) @@ [status |-> status, winner |-> winner],
     inc |-> << >>,
     push |-> << >>]

\* main.py lines 97-100: $set of the cup field, status and winner, $push of the event
HitUpdate(cups_field, new_value, status, winner, event) ==
    [set |-> (cups_field :> new_value) @@ [status |-> status, winner |-> winner],
     inc |-> << >>,
     push |-> [events |-> event]]

\* Variant: the event log survives the reset
ResetUpdateKeepEvents(cups) ==
    [set |-> [cups_remaining_a |-> cups, cups_remaining_b |-> cups,
              status |-> "ongoing", winner |-> "None"],
     inc |-> << >>, push |-> << >>]

\* Variant: the reset also writes the default size into cups_per_side
ResetUpdateDefaultSize(cups) ==
    [set |-> [cups_per_side |-> DefaultCupsPerSide,
              cups_remaining_a |-> cups, cups_remaining_b |-> cups,
              status |-> "ongoing", winner |-> "None", events |-> << >>],
     inc |-> << >>, push |-> << >>]

\* main.py line 114
ResetUpdate(cups) ==
    [set |-> [cups_remaining_a |-> cups, cups_remaining_b |-> cups,
              status |-> "ongoing", winner |-> "None", events |-> << >>],
     inc |-> << >>, push |-> << >>]

\* The store's update operators $set, $inc and $push applied to one document
ApplyUpdate(d, update) ==
    [f \in DOMAIN d |->
        IF f \in DOMAIN update.set THEN update.set[f]
        ELSE IF f \in DOMAIN update.inc THEN d[f] + update.inc[f]
        ELSE IF f \in DOMAIN update.push THEN Append(d[f], update.push[f])
        ELSE d[f]]

\* db["match"].update_one({"_id": oid}, update)
update_one(oid, update) ==
    [i \in DOMAIN store |->
        IF store[i]._id = oid THEN ApplyUpdate(store[i], update) ELSE store[i]]

\* Number of events logged in the whole collection
RECURSIVE SumLen(_)
SumLen(docs) == IF docs = << >> THEN 0 ELSE Len(Head(docs).events) + SumLen(Tail(docs))

StoredEvents == SumLen(store)

\* Number of record_hit requests between their read and their write
HitsInFlight ==
    BagCardinality([r \in {q \in BagToSet(inflight) : q.op = "record_hit"} |-> inflight[r]])

\* The fields of the fetched document that record_hit goes on to read
Fetched(doc, cups_field) == [f \in {cups_field, "status", "winner"} |-> doc[f]]

\* Variant: the finished check is missing
AlreadyFinishedNever(doc) == FALSE

\* main.py line 81
AlreadyFinished(doc) == doc.status = "finished"

\* record_hit, lines 78-95: find_one, the two early errors, and the local
\* computation up to the HitEvent constructor, none of which touches the store
record_hit_read(match_id, team, shooter, given) ==
    LET payload == HitPayload(team, shooter, given)
        fail(code, detail) ==
            /\ resp' = [op |-> "record_hit", code |-> code, match_id |-> match_id,
                        detail |-> detail]
            /\ UNCHANGED inflight
    IN  /\ BagCardinality(inflight) < MaxInFlight
        /\ UNCHANGED store
        /\ IF ~ValidObjectId(match_id)
           THEN fail(400, "Invalid ID format")
           ELSE LET found == FindOne(_to_obj_id(match_id))
                IN  IF found = {}
                    THEN fail(404, "Match not found")
                    ELSE LET doc == store[TheOne(found)]
                         IN  IF AlreadyFinished(doc)
                             THEN fail(400, "Match already finished")
                             ELSE IF ~HitEventValid(payload.cups)
                             THEN fail(500, "ValidationError")
                             ELSE /\ StoredEvents + HitsInFlight < MaxEvents
                                  /\ inflight' = inflight (+) SetToBag({
                                        [op |-> "record_hit", match_id |-> match_id,
                                         payload |-> payload, doc |-> Fetched(doc, CupsField(payload.team))]})
                                  /\ resp' = NoResponse

\* record_hit, lines 85-103: the update computed from the document read, written
record_hit_write(r) ==
    /\ r.op = "record_hit"
    /\ LET payload == r.payload
           doc == r.doc
           cups_field == CupsField(payload.team)
           new_value == NewValue(doc[cups_field], payload.cups)
           winner == HitWinner(doc, payload.team, new_value)
           status == HitStatus(doc, payload.team, new_value)
           event == HitEvent(payload.team, payload.shooter, payload.cups)
           update == HitUpdate(cups_field, new_value, status, winner, event)
       IN  /\ store' = update_one(_to_obj_id(r.match_id), update)
           /\ resp' = [op |-> "record_hit", code |-> 200, match_id |-> r.match_id,
                       status |-> status, winner |-> winner]
    /\ inflight' = inflight (-) SetToBag({r})

\* reset_match, lines 108-111
reset_match_read(match_id) ==
    LET fail(code, detail) ==
            /\ resp' = [op |-> "reset_match", code |-> code, match_id |-> match_id,
                        detail |-> detail]
            /\ UNCHANGED inflight
    IN  /\ BagCardinality(inflight) < MaxInFlight
        /\ UNCHANGED store
        /\ IF ~ValidObjectId(match_id)
           THEN fail(400, "Invalid ID format")
           ELSE LET found == FindOne(_to_obj_id(match_id))
                IN  IF found = {}
                    THEN fail(404, "Match not found")
                    ELSE /\ inflight' = inflight (+) SetToBag({
                                [op |-> "reset_match", match_id |-> match_id,
                                 cups |-> store[TheOne(found)].cups_per_side]})
                         /\ resp' = NoResponse

\* reset_match, lines 112-116
reset_match_write(r) ==
    /\ r.op = "reset_match"
    /\ store' = update_one(_to_obj_id(r.match_id), ResetUpdate(r.cups))
    /\ resp' = [op |-> "reset_match", code |-> 200, match_id |-> r.match_id]
    /\ inflight' = inflight (-) SetToBag({r})

Init ==
    /\ store = << >>
    /\ inflight = EmptyBag
    /\ resp = NoResponse

\* The response of the latest step has been sent
Return ==
    /\ resp # NoResponse
    /\ resp' = NoResponse
    /\ UNCHANGED <<store, inflight>>

\* No response is waiting to be sent
Ready == resp = NoResponse

\* A request arrives and its handler runs up to its first store write; a handler
\* in flight makes its store write and returns.  Interleavings are explored on
\* matches of the explicit sizes.
Next ==
    \/ \E names \in TeamNames, given \in ExplicitCupsPerSide :
          Ready /\ create_match(names, given)
    \/ \E given \in LimitInputs : Ready /\ list_matches(given)
    \/ \E match_id \in IdStrings : Ready /\ get_match(match_id)
    \/ \E match_id \in IdStrings, shot \in Shots, given \in HitCupsInputs :
          Ready /\ record_hit_read(match_id, shot[1], shot[2], given)
    \/ \E r \in BagToSet(inflight) : Ready /\ record_hit_write(r)
    \/ \E match_id \in IdStrings : Ready /\ reset_match_read(match_id)
    \/ \E r \in BagToSet(inflight) : Ready /\ reset_match_write(r)
    \/ Return

Spec == Init /\ [][Next]_vars

\* One request at a time: a handler starts only when no other is in flight.
Quiet == inflight = EmptyBag /\ Ready

SerialNext ==
    \/ \E names \in TeamNames, given \in CupsPerSideInputs :
          Quiet /\ create_match(names, given)
    \/ \E given \in LimitInputs : Quiet /\ list_matches(given)
    \/ \E match_id \in IdStrings : Quiet /\ get_match(match_id)
    \/ \E match_id \in IdStrings, shot \in Shots, given \in HitCupsInputs :
          Quiet /\ record_hit_read(match_id, shot[1], shot[2], given)
    \/ \E r \in BagToSet(inflight) : Ready /\ record_hit_write(r)
    \/ \E match_id \in IdStrings : Quiet /\ reset_match_read(match_id)
    \/ \E r \in BagToSet(inflight) : Ready /\ reset_match_write(r)
    \/ Return

SerialSpec == Init /\ [][SerialNext]_vars

\* Concurrent requests of every kind except reset_match
NoResetNext ==
    \/ \E names \in TeamNames, given \in ExplicitCupsPerSide :
          Ready /\ create_match(names, given)
    \/ \E given \in LimitInputs : Ready /\ list_matches(given)
    \/ \E match_id \in IdStrings : Ready /\ get_match(match_id)
    \/ \E match_id \in IdStrings, shot \in Shots, given \in HitCupsInputs :
          Ready /\ record_hit_read(match_id, shot[1], shot[2], given)
    \/ \E r \in BagToSet(inflight) : Ready /\ record_hit_write(r)
    \/ Return

NoResetSpec == Init /\ [][NoResetNext]_vars

\* ------------------------------------------------------------------ claims
Docs == {store[i] : i \in DOMAIN store}

InFlight == BagToSet(inflight)

LastEvent(d) == d.events[Len(d.events)]

\* The step is request r's store write and return
Completes(r) == r \in InFlight /\ inflight' = inflight (-) SetToBag({r})

\* The step is the write of a record_hit request r that returns success
HitSucceeds(r) ==
    /\ Completes(r) /\ r.op = "record_hit"
    /\ resp'.op = "record_hit" /\ resp'.code = 200

\* An identifier string that is not an ObjectId, in the encoding of IdStrings
Malformed(match_id) == match_id < 1

\* The position of the stored match with this identifier string (0 if none)
PosOf(match_id) ==
    IF \E i \in DOMAIN store : store[i]._id = match_id
    THEN CHOOSE i \in DOMAIN store : store[i]._id = match_id
    ELSE 0

\* C1: in every reachable state, under any interleaving of the read and write
\* steps of create, record_hit and reset, a stored match has a winner (A or B)
\* if and only if its status is finished.
C1_WinnerIffFinished ==
    \A d \in Docs : (d.winner \in {"A", "B"}) <=> (d.status = "finished")

\* A finished match with its winner while another request is still in flight
C1_Witness ==
    \E d \in Docs : d.status = "finished" /\ d.winner = "B" /\ inflight # EmptyBag

\* C2: with requests handled one at a time, a successful hit by team A sets
\* cups_remaining_b to max(0, cups_remaining_b - cups) and leaves cups_remaining_a
\* alone; a hit by team B does the same with the sides exchanged.
C2_HitDecrementsOpposingSide ==
    [][\A r \in InFlight : HitSucceeds(r) =>
          LET i == PosOf(r.match_id)
              before == store[i]
              after == store'[i]
              cups == r.payload.cups
          IN  /\ i # 0
              /\ before.status = "ongoing"
              /\ IF r.payload.team = "A"
                 THEN /\ after.cups_remaining_b = Max(0, before.cups_remaining_b - cups)
                      /\ after.cups_remaining_a = before.cups_remaining_a
                 ELSE /\ after.cups_remaining_a = Max(0, before.cups_remaining_a - cups)
                      /\ after.cups_remaining_b = before.cups_remaining_b]_vars

\* Team A's hit has just lowered side B and left side A full
C2_Witness ==
    /\ resp.op = "record_hit" /\ resp.code = 200
    /\ \E d \in Docs :
          /\ d._id = resp.match_id
          /\ d.events # << >> /\ LastEvent(d).team = "A"
          /\ d.cups_remaining_b = d.cups_per_side - LastEvent(d).cups
          /\ d.cups_remaining_b > 0
          /\ d.cups_remaining_a = d.cups_per_side

\* C3: a successful hit whose new cup value is 0 stores status finished and
\* winner = the payload's team and returns them; one whose new cup value is
\* above 0 stores and returns the status and winner of the document it read.
C3_FinishOnZero ==
    [][\A r \in InFlight : HitSucceeds(r) =>
          LET i == PosOf(r.match_id)
              after == store'[i]
              new_value == after[CupsField(r.payload.team)]
          IN  /\ i # 0
              /\ resp'.status = after.status
              /\ resp'.winner = after.winner
              /\ IF new_value = 0
                 THEN after.status = "finished" /\ after.winner = r.payload.team
                 ELSE after.status = r.doc.status /\ after.winner = r.doc.winner]_vars

\* A hit for more cups than remained has just finished the match
C3_Witness ==
    /\ resp.op = "record_hit" /\ resp.code = 200
    /\ resp.status = "finished" /\ resp.winner = "A"
    /\ \E d \in Docs :
          /\ d._id = resp.match_id
          /\ d.cups_remaining_b = 0 /\ d.status = "finished" /\ d.winner = "A"
          /\ Len(d.events) = 2
          /\ d.events[1].team = "A" /\ d.events[1].cups < d.cups_per_side
          /\ d.events[2].team = "A" /\ d.events[2].cups = d.cups_per_side

\* C4: a record_hit request that reads a finished match is answered 400
\* "Match already finished", is not carried on to the write, and leaves the
\* store (every match's counts, status, winner and events) as it was.
C4_HitOnFinishedFails ==
    [][/\ \A r \in BagToSet(inflight') \ InFlight :
             r.op = "record_hit" => store[PosOf(r.match_id)].status # "finished"
       /\ (/\ resp'.op = "record_hit" /\ resp'.code # 200
           /\ PosOf(resp'.match_id) # 0
           /\ store[PosOf(resp'.match_id)].status = "finished")
          => /\ resp'.code = 400 /\ resp'.detail = "Match already finished"
             /\ store' = store
             /\ inflight' = inflight]_vars

\* A hit on a finished match has just been refused
C4_Witness ==
    /\ resp.op = "record_hit" /\ resp.code = 400
    /\ resp.detail = "Match already finished"
    /\ store[PosOf(resp.match_id)].status = "finished"
    /\ store[PosOf(resp.match_id)].events # << >>

\* C5: the write of a reset sets both cup counts to cups_per_side, status to
\* ongoing, winner to unset and events to empty (the play state of a new match),
\* changes nothing else, and a second reset of the result changes nothing.
C5_ResetRestores ==
    [][\A r \in InFlight : (Completes(r) /\ r.op = "reset_match") =>
          LET i == PosOf(r.match_id)
              before == store[i]
              after == store'[i]
              n == before.cups_per_side
              fresh == Match(before.team_a, before.team_b, n, n, n)
          IN  /\ i # 0
              /\ resp' = [op |-> "reset_match", code |-> 200, match_id |-> r.match_id]
              /\ after.cups_remaining_a = n /\ after.cups_remaining_b = n
              /\ after.status = "ongoing" /\ after.winner = "None"
              /\ after.events = << >>
              /\ \A f \in DOMAIN fresh : after[f] = fresh[f]
              /\ after._id = before._id /\ after.created_at = before.created_at
              /\ \A j \in DOMAIN store : j # i => store'[j] = store[j]
              /\ DOMAIN store' = DOMAIN store
              /\ ApplyUpdate(after, ResetUpdate(after.cups_per_side)) = after]_vars

\* A reset has just restored a match that a hit still in flight had read as
\* already played
C5_Witness ==
    /\ resp.op = "reset_match" /\ resp.code = 200
    /\ \E d \in Docs, r \in InFlight :
          /\ d._id = resp.match_id /\ r.op = "record_hit" /\ r.match_id = d._id
          /\ r.doc[CupsField(r.payload.team)] < d.cups_per_side
          /\ d.cups_remaining_a = d.cups_per_side
          /\ d.cups_remaining_b = d.cups_per_side
          /\ d.events = << >>

\* C6: with requests handled one at a time, a match is finished if and only
\* if one of its cup counts is 0.
C6_FinishedIffZero ==
    \A d \in Docs :
        (d.status = "finished") <=> (d.cups_remaining_a = 0 \/ d.cups_remaining_b = 0)

\* A match finished by emptying side A
C6_Witness ==
    \E d \in Docs : d.status = "finished" /\ d.cups_remaining_a = 0 /\ d.cups_per_side > 1

\* C7: in every reachable state, under any interleaving, both cup counts are
\* integers between 0 and cups_per_side.
C7_CupsInRange ==
    \A d \in Docs :
        /\ d.cups_remaining_a \in Int /\ d.cups_remaining_b \in Int
        /\ 0 <= d.cups_remaining_a /\ d.cups_remaining_a <= d.cups_per_side
        /\ 0 <= d.cups_remaining_b /\ d.cups_remaining_b <= d.cups_per_side

\* Two interleaved hits, each for all the cups of the side: twice as many cups
\* are logged as the side had
C7_Witness ==
    \E d \in Docs :
        /\ d.cups_remaining_b = 0 /\ Len(d.events) = 2
        /\ d.events[1].team = "A" /\ d.events[1].cups = d.cups_per_side
        /\ d.events[2].team = "A" /\ d.events[2].cups = d.cups_per_side

\* C8: a hit's write stores the count computed from the document the request
\* read, whatever the count stored at the time of the write; so of two hits
\* that both read before either writes, the second write overwrites the first
\* decrement although both return success.
C8_WriteOverwrites ==
    [][\A r \in InFlight : HitSucceeds(r) =>
          LET i == PosOf(r.match_id)
              f == CupsField(r.payload.team)
          IN  /\ i # 0
              /\ store'[i][f] = Max(0, r.doc[f] - r.payload.cups)
              /\ Len(store'[i].events) = Len(store[i].events) + 1]_vars

\* Two successful hits by the same team are logged, the count shows only the
\* second one's decrement
C8_Witness ==
    /\ resp.op = "record_hit" /\ resp.code = 200
    /\ \E d \in Docs :
          /\ d._id = resp.match_id
          /\ Len(d.events) = 2
          /\ d.events[1].team = "A" /\ d.events[2].team = "A"
          /\ d.cups_remaining_b = d.cups_per_side - d.events[2].cups
          /\ d.cups_remaining_b > 0
          /\ d.cups_remaining_a = d.cups_per_side

\* C9: a create_match with cups_per_side n in 1..20 (10 when omitted) appends
\* exactly one match with both counts and cups_per_side equal to n, status
\* ongoing, no winner and no events, under an identifier no other match has,
\* returns that identifier, and leaves the existing matches unchanged.
C9_CreateAddsFreshMatch ==
    [][(resp'.op = "create_match") =>
          LET n == IF resp'.given = {} THEN 10 ELSE TheOne(resp'.given)
          IN  IF n >= 1 /\ n <= 20
              THEN /\ resp'.code = 200
                   /\ Len(store') = Len(store) + 1
                   /\ \A j \in DOMAIN store : store'[j] = store[j]
                   /\ LET d == store'[Len(store')]
                      IN  /\ d.cups_per_side = n
                          /\ d.cups_remaining_a = n /\ d.cups_remaining_b = n
                          /\ d.status = "ongoing" /\ d.winner = "None"
                          /\ d.events = << >>
                          /\ resp'.id = d._id
                          /\ \A j \in DOMAIN store : store[j]._id # d._id
                   /\ inflight' = inflight
              ELSE store' = store]_vars

\* A second match has just been created with the default size beside a match
\* that has been played
C9_Witness ==
    /\ resp.op = "create_match" /\ resp.code = 200 /\ resp.given = {}
    /\ Len(store) = 2
    /\ store[1].events # << >>
    /\ store[2].cups_per_side = 10 /\ store[2].cups_remaining_a = 10
    /\ store[2].cups_remaining_b = 10 /\ store[2].events = << >>

\* C10: get_match, record_hit and reset_match answer 400 to a malformed
\* identifier and 404 to a well-formed one that no stored match has, never
\* carry such a request on to a write, and leave the store as it was.
C10_BadIdRejected ==
    [][/\ \A r \in BagToSet(inflight') :
             ~Malformed(r.match_id) /\ PosOf(r.match_id) # 0
       /\ (/\ resp'.op \in {"get_match", "record_hit", "reset_match"}
           /\ (Malformed(resp'.match_id) \/ PosOf(resp'.match_id) = 0))
          => /\ resp'.code = IF Malformed(resp'.match_id) THEN 400 ELSE 404
             /\ resp'.detail = IF Malformed(resp'.match_id)
                               THEN "Invalid ID format" ELSE "Match not found"
             /\ store' = store
             /\ inflight' = inflight]_vars

\* A reset of an identifier that no match has was just answered 404 while
\* another match exists and a hit on it is in flight
C10_Witness ==
    /\ resp.op = "reset_match" /\ resp.code = 404
    /\ ~Malformed(resp.match_id)
    /\ store # << >> /\ inflight # EmptyBag

IsPrefix(s, t) == Len(s) <= Len(t) /\ SubSeq(t, 1, Len(s)) = s

\* The step is the store write of some reset_match request
ResetWrites == \E r \in InFlight : Completes(r) /\ r.op = "reset_match"

\* C11: under any interleaving, the write of a successful hit appends exactly
\* one event with the payload's team, shooter and cups to the end of the
\* match's log, and in every step other than a reset's write each match's
\* previous log is a prefix of its next log.
C11_LogAppendOnly ==
    [][/\ \A r \in InFlight : HitSucceeds(r) =>
             LET i == PosOf(r.match_id)
             IN  /\ i # 0
                 /\ store'[i].events = Append(store[i].events,
                        [team |-> r.payload.team, shooter |-> r.payload.shooter,
                         cups |-> r.payload.cups])
                 /\ \A j \in DOMAIN store : j # i => store'[j].events = store[j].events
       /\ ~ResetWrites =>
             \A i \in DOMAIN store : IsPrefix(store[i].events, store'[i].events)]_vars

\* The second of two hits by different teams has just been appended behind
\* the first, each with its own shooter and cups
C11_Witness ==
    /\ resp.op = "record_hit" /\ resp.code = 200
    /\ \E d \in Docs :
          /\ d._id = resp.match_id
          /\ d.events = << [team |-> "B", shooter |-> "None", cups |-> 1],
                           [team |-> "A", shooter |-> "sam", cups |-> 2] >>

\* C12: a hit changes the cup count, status, winner and event log of its match
\* in one step: every step leaves a stored match either as it was, or as a hit
\* wrote it in full, or as a reset wrote it; and a get_match returns a stored
\* document whole, so next to one hit in flight it shows the document that hit
\* read or the document that hit wrote, never a mixture.
C12_HitWriteIsOneStep ==
    [][/\ \A i \in DOMAIN store :
             \/ store'[i] = store[i]
             \/ \E r \in InFlight :
                   /\ HitSucceeds(r) /\ PosOf(r.match_id) = i
                   /\ LET f == CupsField(r.payload.team)
                      IN  /\ store'[i][f] = Max(0, r.doc[f] - r.payload.cups)
                          /\ store'[i].status = resp'.status
                          /\ store'[i].winner = resp'.winner
                          /\ Len(store'[i].events) = Len(store[i].events) + 1
                          /\ LastEvent(store'[i]).team = r.payload.team
             \/ \E r \in InFlight :
                   /\ Completes(r) /\ r.op = "reset_match" /\ PosOf(r.match_id) = i
                   /\ store'[i].events = << >>
       /\ (resp'.op = "get_match" /\ resp'.code = 200) =>
             LET d == store[PosOf(resp'.match_id)]
             IN  /\ store' = store
                 /\ resp'.doc.id = d._id
                 /\ resp'.doc.cups_remaining_a = d.cups_remaining_a
                 /\ resp'.doc.cups_remaining_b = d.cups_remaining_b
                 /\ resp'.doc.status = d.status
                 /\ resp'.doc.winner = d.winner
                 /\ resp'.doc.events = d.events]_vars

\* A get_match answered while the only hit on that match is between its read
\* and its write: the document shown is the one the hit read, without its event
C12_Witness ==
    /\ resp.op = "get_match" /\ resp.code = 200
    /\ BagCardinality(inflight) = 1
    /\ \E r \in InFlight :
          /\ r.op = "record_hit" /\ r.match_id = resp.match_id
          /\ resp.doc[CupsField(r.payload.team)] = r.doc[CupsField(r.payload.team)]
          /\ resp.doc.status = "ongoing"
          /\ resp.doc.events = << >>

\* C13: with requests processed one at a time, no step other than a reset's
\* write increases cups_remaining_a or cups_remaining_b of any match.
C13_CupsNeverIncrease ==
    [][~ResetWrites =>
          \A i \in DOMAIN store :
             /\ store'[i].cups_remaining_a <= store[i].cups_remaining_a
             /\ store'[i].cups_remaining_b <= store[i].cups_remaining_b]_vars

\* Both sides of a match have been hit since its creation and both counts are
\* below the size, the last hit having just been answered
C13_Witness ==
    /\ resp.op = "record_hit" /\ resp.code = 200
    /\ \E d \in Docs :
          /\ d._id = resp.match_id
          /\ Len(d.events) = 2
          /\ d.cups_remaining_a < d.cups_per_side
          /\ d.cups_remaining_b < d.cups_per_side
          /\ d.cups_remaining_a > 0

Min(a, b) == IF a <= b THEN a ELSE b

\* C14: list_matches with a positive limit answers with min(limit, number of
\* stored matches) matches, each the rendering of a different stored match,
\* ordered by created_at descending, none of the matches left out being newer
\* than one returned, and it changes no stored match.
C14_ListNewestFirst ==
    [][resp'.op = "list_matches" =>
          LET results == resp'.results
              shown == {results[k].id : k \in DOMAIN results}
          IN  /\ resp'.limit > 0
              /\ resp'.code = 200
              /\ Len(results) = Min(resp'.limit, Len(store))
              /\ \A k \in DOMAIN results :
                    /\ PosOf(results[k].id) # 0
                    /\ results[k] = Render(store[PosOf(results[k].id)])
              /\ \A k, l \in DOMAIN results :
                    k < l => results[k].created_at > results[l].created_at
              /\ \A d \in Docs : \A k \in DOMAIN results :
                    StrOfId(d._id) \notin shown => d.created_at < results[k].created_at
              /\ store' = store]_vars

\* Two matches are stored and a list with limit 1 has returned the later one
C14_Witness ==
    /\ resp.op = "list_matches" /\ resp.limit = 1
    /\ Len(store) = 2
    /\ Len(resp.results) = 1
    /\ resp.results[1].id = StrOfId(store[2]._id)
    /\ store[2].created_at > store[1].created_at

\* C15: under every interleaving, no step changes the id, team_a, team_b or
\* cups_per_side of a stored match; only create_match adds a match.
C15_IdentityFieldsFrozen ==
    [][/\ Len(store') >= Len(store)
       /\ \A i \in DOMAIN store :
             /\ store'[i]._id = store[i]._id
             /\ store'[i].team_a = store[i].team_a
             /\ store'[i].team_b = store[i].team_b
             /\ store'[i].cups_per_side = store[i].cups_per_side
       /\ Len(store') > Len(store) => resp'.op = "create_match"]_vars

\* A match has just been reset while a hit on it is still in flight, and has
\* the identity it was created with
C15_Witness ==
    /\ resp.op = "reset_match" /\ resp.code = 200
    /\ \E r \in InFlight : r.op = "record_hit" /\ r.match_id = resp.match_id
    /\ \E d \in Docs :
          /\ d._id = resp.match_id
          /\ d.team_a = "red" /\ d.team_b = "blue" /\ d.cups_per_side = 2
          /\ d.events = << >>

\* C16: with requests processed one at a time, a finished match has one count
\* at 0 and the other above 0; winner A goes with cups_remaining_b = 0 and
\* cups_remaining_a > 0, winner B with cups_remaining_a = 0 and
\* cups_remaining_b > 0.
C16_WinnerEmptiedOtherSide ==
    \A d \in Docs :
       /\ d.status = "finished" =>
             \/ d.cups_remaining_a = 0 /\ d.cups_remaining_b > 0
             \/ d.cups_remaining_b = 0 /\ d.cups_remaining_a > 0
       /\ d.winner = "A" => d.cups_remaining_b = 0 /\ d.cups_remaining_a > 0
       /\ d.winner = "B" => d.cups_remaining_a = 0 /\ d.cups_remaining_b > 0

\* B has won a match in which A had also scored
C16_Witness ==
    \E d \in Docs :
       /\ d.status = "finished" /\ d.winner = "B"
       /\ d.cups_remaining_a = 0
       /\ d.cups_remaining_b > 0 /\ d.cups_remaining_b < d.cups_per_side

\* C17: with concurrent record_hit requests and no reset request, a match whose
\* stored status is finished stays finished in every later step and keeps its
\* stored winner.
C17_FinishedIsFinal ==
    [][\A i \in DOMAIN store :
          store[i].status = "finished" =>
             /\ store'[i].status = "finished"
             /\ store'[i].winner = store[i].winner]_vars

RECURSIVE SumCups(_, _)
\* The cups of the logged events of one team, added up
SumCups(events, team) ==
    IF events = << >> THEN 0
    ELSE (IF Head(events).team = team THEN Head(events).cups ELSE 0)
            + SumCups(Tail(events), team)

\* C18: with requests processed one at a time, cups_remaining_b is
\* max(0, cups_per_side - cups logged for team A) and cups_remaining_a is
\* max(0, cups_per_side - cups logged for team B).
C18_CountsAgreeWithLog ==
    \A d \in Docs :
       /\ d.cups_remaining_b = Max(0, d.cups_per_side - SumCups(d.events, "A"))
       /\ d.cups_remaining_a = Max(0, d.cups_per_side - SumCups(d.events, "B"))

\* One logged hit of each team on one match, of different sizes, each count
\* being the size less the other team's cups
C18_Witness ==
    \E d \in Docs :
       /\ Len(d.events) = 2
       /\ d.events[1].team = "A" /\ d.events[2].team = "B"
       /\ d.events[1].cups # d.events[2].cups
       /\ d.cups_remaining_b = d.cups_per_side - d.events[1].cups
       /\ d.cups_remaining_a = d.cups_per_side - d.events[2].cups

\* C19: a hit whose cups are outside 1..10 never reaches the store write: no
\* request waiting to write carries such cups, the validation failure leaves
\* store and requests as they were, every logged event has cups in 1..10, and
\* a successful hit writes a targeted count at least 1 below the one it read
\* unless that was 0 (the stored count itself, when no other write came
\* between its read and its write).
C19_CupsValidated ==
    [][/\ \A r \in BagToSet(inflight') :
             r.op = "record_hit" => r.payload.cups \in 1..MaxHitCups
       /\ (resp'.op = "record_hit" /\ resp'.code = 500) =>
             /\ resp'.detail = "ValidationError"
             /\ store' = store /\ inflight' = inflight
       /\ \A i \in DOMAIN store' : \A k \in DOMAIN store'[i].events :
             store'[i].events[k].cups \in 1..MaxHitCups
       /\ \A r \in InFlight : HitSucceeds(r) =>
             LET i == PosOf(r.match_id)
                 f == CupsField(r.payload.team)
             IN  /\ r.doc[f] = 0 \/ store'[i][f] <= r.doc[f] - 1
                 /\ store[i][f] = r.doc[f] =>
                       store[i][f] = 0 \/ store'[i][f] <= store[i][f] - 1]_vars

\* A hit on an ongoing match that already has a logged event has been turned
\* down by the event's validation
C19_Witness ==
    /\ resp.op = "record_hit" /\ resp.code = 500
    /\ PosOf(resp.match_id) # 0
    /\ LET d == store[PosOf(resp.match_id)]
       IN  d.status = "ongoing" /\ Len(d.events) = 1

\* The hits logged for a match are paid for by cups taken, and a cup is left
HitBudget(d) ==
    /\ Len(d.events) + d.cups_remaining_a + d.cups_remaining_b <= 2 * d.cups_per_side
    /\ d.cups_remaining_a + d.cups_remaining_b >= 1
    /\ Len(d.events) <= 2 * d.cups_per_side - 1

\* C20: with requests processed one at a time, a match of size n logs at most
\* 2n - 1 hits between creation or reset and the next reset: every successful
\* hit is made on an ongoing match and strictly lowers
\* cups_remaining_a + cups_remaining_b, which never falls below 1.
C20_HitsBounded ==
    [][/\ \A i \in DOMAIN store' : HitBudget(store'[i])
       /\ \A r \in InFlight : HitSucceeds(r) =>
             LET i == PosOf(r.match_id)
             IN  /\ store[i].status = "ongoing"
                 /\ store'[i].cups_remaining_a + store'[i].cups_remaining_b
                       < store[i].cups_remaining_a + store[i].cups_remaining_b]_vars

\* A match of size 1 has its one hit logged and has turned down the next hit
C20_Witness ==
    /\ resp.op = "record_hit" /\ resp.code = 400
    /\ PosOf(resp.match_id) # 0
    /\ LET d == store[PosOf(resp.match_id)]
       IN  /\ d.cups_per_side = 1
           /\ Len(d.events) = 2 * d.cups_per_side - 1
           /\ d.status = "finished"
====
